---- MODULE Spec2Model ----
(***************************************************************************)
(* Model of the lovebug map backend: the WebSocketManager registry and its *)
(* broadcast (app/utils/websocket_manager.py), the /ws endpoint task and   *)
(* the scheduled crawl_and_update job (app/main.py), and the crawler's     *)
(* batch construction (app/crawlers/twitter_crawler.py).                   *)
(*                                                                         *)
(* The runtime is one asyncio event loop: every action below is the code   *)
(* that runs between two awaits of one task.                               *)
(***************************************************************************)
EXTENDS Integers, Sequences, FiniteSets, TLC

\* ------------------------------------------------------------------ bounds
MaxChannels == 3      \* websocket objects (one /ws endpoint task each)
MaxRunChannels == 1   \* websocket objects opened while the crawl job is scheduled
MaxFrames == 1        \* client text frames received over all channels
MaxCalls == 1         \* direct calls of WebSocketManager.broadcast
MaxTicks == 2         \* firings of the interval trigger
MaxKeywords == 3      \* length of lovebug_keywords that is searched
MaxTweetId == 2       \* distinct tweet ids the source returns
MaxText == 2          \* distinct tweet texts the source returns
MaxInstances == 2     \* job instances the executor could hold
MaxUserChannels == 2  \* websocket objects of endpoints that pass a client id
MaxUsers == 1         \* distinct client ids
MaxSends == 1         \* direct calls of WebSocketManager.send_to_user
MaxFrameText == 2     \* distinct texts a client frame carries
MaxPeers == 1         \* websocket objects served while every operation is in use
MaxReportId == 3      \* distinct well-formed ObjectId strings a client asks for
MaxRequests == 2      \* GET /reports/{report_id} requests answered

Channels == 1..MaxChannels
RunChannels == 1..MaxRunChannels
UserChannels == 1..MaxUserChannels
PeerChannels == 1..MaxPeers
Instances == 1..MaxInstances
TweetIds == 1..MaxTweetId

\* scheduler.add_job(crawl_and_update, 'interval', minutes=10, ...) passes no
\* max_instances: the job runs under the scheduler's default of one instance
max_instances == 1

\* the direct caller of broadcast is caller 0, job instance i is caller i
Callers == {0} \cup Instances

None == "None"
Datetime == "datetime"        \* a datetime.datetime object
TypeError == "TypeError"
BadText == 0                  \* a text on which the extraction raises
Texts == 0..MaxText
\* the texts of the client frames
FrameNames == <<"ping", "hello", "bye">>
FrameTexts == {FrameNames[n] : n \in 1..MaxFrameText}

\* the client ids, strings as in connect(websocket, user_id: str = None)
UserNames == <<"u1", "u2", "u3">>
UserIds == {UserNames[n] : n \in 1..MaxUsers}

VARIABLES
    active_connections,   \* WebSocketManager.active_connections (list)
    connection_info,      \* WebSocketManager.connection_info (dict, insertion order)
    chPc,                 \* position of each websocket_endpoint task
    send_failed,          \* whether the latest send_text on each channel raised
    nframes,              \* client frames received so far
    chUser,               \* the user_id argument of each channel's connect call
    chSend,               \* the text of each endpoint's pending send_personal_message
    registered,           \* channels registered and neither unregistered nor pruned since
    st,                   \* the frame of the direct send_to_user call
    nsends,               \* direct send_to_user calls so far
    bc,                   \* the frame of each broadcast call, per caller
    ncalls,               \* direct broadcast calls so far
    run,                  \* the frame of each crawl_and_update job instance
    store,                \* database.lovebug_reports: the documents, in insertion order
    nticks,               \* firings of the interval trigger so far
    bearer_token,         \* TwitterCrawler.bearer_token is set
    responses             \* the requests get_report has answered, with their status

regVars == <<active_connections, connection_info, registered>>
chVars == <<chPc, send_failed, nframes, chUser, chSend>>
sendVars == <<st, nsends>>
jobVars == <<run, store, nticks, bearer_token, responses>>
vars == <<active_connections, connection_info, chPc, send_failed, nframes, chUser, chSend,
          registered, st, nsends, bc, ncalls, run, store, nticks, bearer_token,
          responses>>

\* ------------------------------------------------------------- list helpers
Range(s) == {s[i] : i \in 1..Len(s)}

\* list.remove(x): deletes the first occurrence of x
RECURSIVE ListRemove(_, _)
ListRemove(s, x) ==
    IF s = <<>> THEN <<>>
    ELSE IF Head(s) = x THEN Tail(s)
    ELSE <<Head(s)>> \o ListRemove(Tail(s), x)

\* dict.pop(key, default): deletes the entry of key when there is one
DictPop(d, ws) == SelectSeq(d, LAMBDA e : e.ws # ws)

\* dict[key] = value: replaces in place, or appends a new key
DictSet(d, ws, info) ==
    IF \E i \in 1..Len(d) : d[i].ws = ws
    THEN [i \in 1..Len(d) |-> IF d[i].ws = ws THEN [ws |-> ws, user_id |-> info] ELSE d[i]]
    ELSE Append(d, [ws |-> ws, user_id |-> info])

InfoKeys(d) == {d[i].ws : i \in 1..Len(d)}

\* ---------------------------------------------------------------- registry
\* a connect that has appended the channel and not yet recorded its metadata
connect_list_only(reg, ws, user_id) ==
    [active |-> Append(reg.active, ws), info |-> reg.info]

\* WebSocketManager.connect after the accept: append and record the metadata
connect(reg, ws, user_id) ==
    [active |-> Append(reg.active, ws),
     info   |-> DictSet(reg.info, ws, user_id)]

\* disconnect that forgets to take the channel out of the list
disconnect_keeps_active(reg, ws) ==
    [active |-> reg.active, info |-> DictPop(reg.info, ws)]

\* list.remove(x) raises ValueError when x is not in the list
list_remove_raises(s, x) == x \notin Range(s)

\* a disconnect without the membership test
disconnect_raises_unguarded(reg, ws) == list_remove_raises(reg.active, ws)

\* whether disconnect raises: the removal runs under
\* `if websocket in self.active_connections`, the pop has a default
disconnect_raises(reg, ws) ==
    ws \in Range(reg.active) /\ list_remove_raises(reg.active, ws)

\* WebSocketManager.disconnect
disconnect(reg, ws) ==
    IF ws \in Range(reg.active)
    THEN [active |-> ListRemove(reg.active, ws), info |-> DictPop(reg.info, ws)]
    ELSE reg

\* the loop `for connection in disconnected_connections: self.disconnect(connection)`
RECURSIVE disconnect_all(_, _)
disconnect_all(reg, dc) ==
    IF dc = <<>> THEN reg
    ELSE disconnect_all(disconnect(reg, Head(dc)), Tail(dc))

get_connection_count == Len(active_connections)

Registry == [active |-> active_connections, info |-> connection_info]

SetRegistry(reg) ==
    /\ active_connections' = reg.active
    /\ connection_info' = reg.info

\* ------------------------------------------------------------ serialization
\* json.dumps(message, ensure_ascii=False): the default encoder raises
\* TypeError on a datetime object; otherwise the text of the message
NoMessage == [type |-> None, data |-> <<>>]

json_dumps(message) ==
    IF /\ "data" \in DOMAIN message
       /\ \E i \in 1..Len(message.data) : message.data[i].created_at = Datetime
    THEN [error |-> TypeError, text |-> NoMessage]
    ELSE [error |-> None, text |-> message]

NoText == [error |-> None, text |-> NoMessage]

\* {"type": "pong", "message": <a fixed status text>}
PongMessage == [type |-> "pong", message |-> "alive"]

\* a reply that carries the text of the client frame
pong_message_echo(data) == [type |-> "pong", message |-> data]

\* the reply websocket_endpoint builds after receive_text returned data
pong_message(data) == PongMessage

\* messages a direct caller hands to broadcast
EmptyUpdate == [type |-> "lovebug_update", data |-> <<>>]
DictUpdate == [type |-> "lovebug_update",
               data |-> <<[tweet_id |-> 1, content |-> 1, created_at |-> Datetime]>>]
CallMessages == {EmptyUpdate, DictUpdate}

\* --------------------------------------------------------------- broadcast
IdleFrame ==
    [pc |-> "idle", message |-> NoMessage, message_str |-> NoText, it |-> 0,
     connection |-> 0, disconnected_connections |-> <<>>,
     start |-> <<>>, log |-> <<>>, mutated |-> FALSE, result |-> None]

\* a broadcast that serializes the message before it looks at the registry
broadcast_enter_dumps_first(message) ==
    IF json_dumps(message).error = TypeError
    THEN [IdleFrame EXCEPT !.pc = "done", !.message = message,
                           !.start = active_connections, !.result = "raised"]
    ELSE IF active_connections = <<>>
    THEN [IdleFrame EXCEPT !.pc = "done", !.message = message,
                           !.message_str = json_dumps(message), !.result = "returned"]
    ELSE [IdleFrame EXCEPT !.pc = "sending", !.message = message,
                           !.message_str = json_dumps(message),
                           !.it = 1, !.connection = active_connections[1],
                           !.start = active_connections]

\* broadcast up to its first await: the emptiness test, json.dumps and the
\* first step of the list iterator
broadcast_enter(message) ==
    IF active_connections = <<>>
    THEN [IdleFrame EXCEPT !.pc = "done", !.message = message, !.result = "returned"]
    ELSE IF json_dumps(message).error = TypeError
    THEN [IdleFrame EXCEPT !.pc = "done", !.message = message,
                           !.start = active_connections, !.result = "raised"]
    ELSE [IdleFrame EXCEPT !.pc = "sending", !.message = message,
                           !.message_str = json_dumps(message),
                           !.it = 1, !.connection = active_connections[1],
                           !.start = active_connections]

\* an iterator that stops one element early
iter_stops_early(f, active) == f.it + 1 < Len(active)

\* the list iterator of `for connection in self.active_connections`: it keeps
\* an index into the live list and stops when the index reaches its length
iter_has_next(f, active) == f.it < Len(active)

\* a pass without the try/except around send_text: the first failure leaves
\* the loop and the call
broadcast_step_unguarded(f, reg, ok) ==
    LET g == [f EXCEPT !.log = Append(f.log, [ws |-> f.connection, ok |-> ok])]
    IN  IF ~ok
        THEN [frame |-> [g EXCEPT !.pc = "done", !.result = "raised", !.connection = 0],
              reg |-> reg]
        ELSE IF iter_has_next(f, reg.active)
        THEN [frame |-> [g EXCEPT !.it = f.it + 1,
                                  !.connection = reg.active[f.it + 1]],
              reg |-> reg]
        ELSE [frame |-> [g EXCEPT !.pc = "done", !.result = "returned",
                                  !.connection = 0],
              reg |-> disconnect_all(reg, f.disconnected_connections)]

\* one send of the pass has completed (ok) or raised (~ok); the code then runs
\* to the next await, or through the pruning loop to the return
broadcast_step(f, reg, ok) ==
    LET dc == IF ok THEN f.disconnected_connections
              ELSE Append(f.disconnected_connections, f.connection)
        g == [f EXCEPT !.disconnected_connections = dc,
                       !.log = Append(f.log, [ws |-> f.connection, ok |-> ok])]
    IN  IF iter_has_next(f, reg.active)
        THEN [frame |-> [g EXCEPT !.it = f.it + 1,
                                  !.connection = reg.active[f.it + 1]],
              reg |-> reg]
        ELSE [frame |-> [g EXCEPT !.pc = "done", !.result = "returned",
                                  !.connection = 0],
              reg |-> disconnect_all(reg, dc)]

\* a registry mutation by another task while a pass is suspended
NoteMutation(changed) ==
    [k \in DOMAIN bc |->
        IF bc[k].pc = "sending" /\ changed THEN [bc[k] EXCEPT !.mutated = TRUE]
        ELSE bc[k]]

\* ------------------------------------------------------ personal messages
\* send_personal_message up to its await: json.dumps runs inside the try, so
\* its exception goes to the handler, which disconnects the channel
send_personal_message_enter(reg, message, ws) ==
    LET message_str == json_dumps(message)
    IN  IF message_str.error = TypeError
        THEN [pending |-> FALSE, message_str |-> NoText, reg |-> disconnect(reg, ws)]
        ELSE [pending |-> TRUE, message_str |-> message_str, reg |-> reg]

\* a handler that only logs the failed send
send_personal_message_done_logs(reg, ws, ok) == reg

\* send_personal_message after its await: send_text completed (ok) or raised
send_personal_message_done(reg, ws, ok) ==
    IF ok THEN reg ELSE disconnect(reg, ws)

IdleSend ==
    [pc |-> "idle", user_id |-> None, message |-> NoMessage, connection |-> 0,
     start |-> <<>>, log |-> <<>>, result |-> None]

\* a lookup that also takes the entries that carry no user_id
user_entries_or_anonymous(info, user_id) ==
    {j \in 1..Len(info) : info[j].user_id \in {user_id, None}}

\* the entries of connection_info whose user_id is the one looked for
user_entries(info, user_id) == {j \in 1..Len(info) : info[j].user_id = user_id}

\* the first entry, in the insertion order of the dict, of the client id
first_entry(info, user_id) ==
    CHOOSE j \in user_entries(info, user_id) : \A k \in user_entries(info, user_id) : j <= k

\* send_to_user up to its first await or its return
send_to_user_enter(reg, user_id, message) ==
    LET f == [IdleSend EXCEPT !.user_id = user_id, !.message = message,
                              !.start = reg.info]
    IN  IF user_entries(reg.info, user_id) = {}
        THEN [frame |-> [f EXCEPT !.pc = "done", !.result = "False"], reg |-> reg]
        ELSE LET connection == reg.info[first_entry(reg.info, user_id)].ws
                 r == send_personal_message_enter(reg, message, connection)
             IN  IF r.pending
                 THEN [frame |-> [f EXCEPT !.pc = "sending", !.connection = connection],
                       reg |-> r.reg]
                 ELSE [frame |-> [f EXCEPT !.pc = "done", !.connection = connection,
                                           !.result = "True"],
                       reg |-> r.reg]

\* send_to_user after send_personal_message returned: `return True`
send_to_user_done(f, reg, ok) ==
    [frame |-> [f EXCEPT !.pc = "done", !.result = "True",
                         !.log = Append(f.log, [ws |-> f.connection, ok |-> ok])],
     reg |-> send_personal_message_done(reg, f.connection, ok)]

\* ----------------------------------------------------------------- crawler
\* _crawl_with_scraping: the two sample tweets
sample_tweets == <<[id |-> 1, text |-> 1], [id |-> 2, text |-> 1]>>

NoReport == [tweet_id |-> 0, content |-> 0, created_at |-> None]

\* _process_tweet: the report of a tweet, or None when the extraction raised;
\* created_at is the tweet's datetime
process_tweet(tweet_data) ==
    IF tweet_data.text = BadText THEN NoReport
    ELSE [tweet_id |-> tweet_data.id, content |-> tweet_data.text,
          created_at |-> Datetime]

\* the loop of crawl_lovebug_tweets: `if report: reports.append(report)`
RECURSIVE process_tweets(_)
process_tweets(tweets) ==
    IF tweets = <<>> THEN <<>>
    ELSE LET report == process_tweet(Head(tweets))
         IN  (IF report # NoReport THEN <<report>> ELSE <<>>)
                 \o process_tweets(Tail(tweets))

\* report.dict(): the fields as Python values, datetimes left as objects
report_dict(report) ==
    [tweet_id |-> report.tweet_id, content |-> report.content,
     created_at |-> report.created_at]

\* the message crawl_and_update hands to broadcast
update_message(reports) ==
    [type |-> "lovebug_update",
     data |-> [i \in 1..Len(reports) |-> report_dict(reports[i])]]

\* ------------------------------------------------------------------- store
\* the positions of the documents the filter {"tweet_id": tweet_id} matches
matching(coll, tweet_id) == {j \in 1..Len(coll) : coll[j].tweet_id = tweet_id}

first_match(coll, tweet_id) ==
    CHOOSE j \in matching(coll, tweet_id) : \A k \in matching(coll, tweet_id) : j <= k

\* a write the store acknowledges and drops
update_one_drops(coll, doc) == coll

\* an insert_one in the place of the upsert
update_one_inserts(coll, doc) == Append(coll, doc)

\* update_one({"tweet_id": report.tweet_id}, {"$set": report.dict()},
\* upsert=True): the fields of the first matching document are set, and the
\* document is inserted when no document matches
update_one(coll, doc) ==
    IF matching(coll, doc.tweet_id) = {}
    THEN Append(coll, doc)
    ELSE [coll EXCEPT ![first_match(coll, doc.tweet_id)] = doc]

\* find_one({"tweet_id": tweet_id}): the content of the document (0: none)
content_of(coll, tweet_id) ==
    IF matching(coll, tweet_id) = {} THEN 0
    ELSE coll[first_match(coll, tweet_id)].content

stored(tweet_id) == content_of(store, tweet_id)

\* ------------------------------------------------------------- report query
\* the documents update_one writes: report.dict() of a report of the crawler
Documents == [tweet_id : TweetIds, content : 1..MaxText, created_at : {Datetime}]

\* the collections the job can leave behind: the filter of the upsert keeps
\* one document per tweet_id
Collections ==
    {coll \in UNION {[1..n -> Documents] : n \in 0..MaxTweetId} :
        \A j, k \in 1..Len(coll) : coll[j].tweet_id = coll[k].tweet_id => j = k}

\* a report_id string from which ObjectId(report_id) raises InvalidId
InvalidId == 0
\* the well-formed report_id strings: the store gives the n-th document it
\* inserts the n-th ObjectId, so the _id of a document is its position
ObjectIds == 1..MaxReportId
ReportIds == {InvalidId} \cup ObjectIds

\* find_one({"_id": ObjectId(report_id)}): the document, or None
find_one_by_id(coll, oid) ==
    IF oid \in 1..Len(coll) THEN coll[oid] ELSE NoReport

\* the try block of get_report: what it returns or what it raises. The 404
\* is an HTTPException raised inside the block
get_report_try(coll, report_id, find_ok) ==
    IF report_id = InvalidId THEN [raised |-> "InvalidId", status |-> 0]
    ELSE IF ~find_ok THEN [raised |-> "PyMongoError", status |-> 0]
    ELSE IF find_one_by_id(coll, report_id) = NoReport
         THEN [raised |-> "HTTPException", status |-> 404]
    ELSE [raised |-> None, status |-> 200]

\* get_report: `except Exception as e` catches whatever the block raised,
\* fastapi's HTTPException included (it is a subclass of Exception), and
\* raises HTTPException(status_code=500) in its place
get_report(coll, report_id, find_ok) ==
    LET tried == get_report_try(coll, report_id, find_ok)
    IN  IF tried.raised # None THEN 500 ELSE tried.status

\* -------------------------------------------------------------- job frames
IdleRun ==
    [pc |-> "idle", tick |-> 0, keyword |-> 0, tweets |-> <<>>, reports |-> <<>>,
     idx |-> 0, upserts |-> <<>>, calls |-> 0, outcome |-> None,
     escaped |-> FALSE, prior_error |-> FALSE]

Running == {i \in Instances : run[i].pc # "idle"}

\* an executor that accepts every submission of the job
can_submit_always(running) == TRUE

\* the executor accepts a submission of the job while fewer than
\* max_instances instances of it are running
can_submit(running) == Cardinality(running) < max_instances

\* the handler `except Exception as e: logger.error(...)` of crawl_and_update
\* that lets the exception out of the job
run_error_reraised(r) == [r EXCEPT !.pc = "idle", !.outcome = "error", !.escaped = TRUE]

\* the handler `except Exception as e: logger.error(...)` of crawl_and_update
run_error(r) == [r EXCEPT !.pc = "idle", !.outcome = "error"]

\* an update_one whose exception is swallowed inside the loop
upsert_failed_continue(r) ==
    IF r.idx < Len(r.reports) THEN [r EXCEPT !.idx = r.idx + 1]
    ELSE [r EXCEPT !.pc = "idle", !.outcome = "published"]

\* update_one raised inside the for loop: nothing catches it before the
\* handler of crawl_and_update
upsert_failed(r) == run_error(r)

\* a broadcast placed inside the for loop
publish_each(r) == TRUE

\* the broadcast follows the for loop over the reports
publish_now(r) == r.idx >= Len(r.reports)

\* crawl_and_update after broadcast returned
run_after_publish(r) ==
    IF r.idx < Len(r.reports)
    THEN [r EXCEPT !.pc = "persisting", !.idx = r.idx + 1]
    ELSE [r EXCEPT !.pc = "idle", !.outcome = "published"]

\* a crawl that gives up the whole batch when one extraction raises
crawl_finish_all_or_nothing(r) ==
    IF \E j \in 1..Len(r.tweets) : r.tweets[j].text = BadText
    THEN [r EXCEPT !.pc = "idle", !.outcome = "empty"]
    ELSE [r EXCEPT !.pc = "persisting", !.reports = process_tweets(r.tweets), !.idx = 1]

\* crawl_lovebug_tweets after the fetch, and crawl_and_update up to the first
\* update_one: an empty batch ends the run
crawl_finish(r) ==
    LET reports == process_tweets(r.tweets)
    IN  IF reports = <<>>
        THEN [r EXCEPT !.pc = "idle", !.outcome = "empty"]
        ELSE [r EXCEPT !.pc = "persisting", !.reports = reports, !.idx = 1]

\* a search whose exception reaches the outer handler of _crawl_with_api:
\* `return []` gives up the tweets of every keyword
search_failed_aborts(r) == crawl_finish([r EXCEPT !.tweets = <<>>])

\* the handler inside the keyword loop: `logger.warning(...); continue`
search_failed(r) == [r EXCEPT !.keyword = r.keyword + 1]

\* crawl_and_update from its start to its first await
crawl_start(r) ==
    IF bearer_token
    THEN [r EXCEPT !.pc = "fetching", !.keyword = 1]
    ELSE crawl_finish([r EXCEPT !.tweets = sample_tweets])

\* ------------------------------------------------------------------- actions
InitIdle ==
    /\ active_connections = <<>>
    /\ connection_info = <<>>
    /\ chPc = [c \in Channels |-> "new"]
    /\ send_failed = [c \in Channels |-> FALSE]
    /\ nframes = 0
    /\ chUser = [c \in Channels |-> None]
    /\ chSend = [c \in Channels |-> NoText]
    /\ registered = {}
    /\ st = IdleSend
    /\ nsends = 0
    /\ bc = [k \in Callers |-> IdleFrame]
    /\ ncalls = 0
    /\ run = [i \in Instances |-> IdleRun]
    /\ nticks = 0
    /\ responses = <<>>

\* the collection is empty until the job writes to it
InitCommon == InitIdle /\ store = <<>>

Init == InitCommon /\ bearer_token = FALSE

InitRun == InitCommon /\ bearer_token \in BOOLEAN

\* a client opens /ws: websocket_endpoint starts, calls connect(websocket)
\* with no user_id, and awaits websocket.accept().
\* Channels are numbered in the order their endpoint tasks start.
EndpointStart(c) ==
    /\ chPc[c] = "new"
    /\ \A d \in Channels : d < c => chPc[d] # "new"
    /\ chPc' = [chPc EXCEPT ![c] = "accept"]
    /\ chUser' = [chUser EXCEPT ![c] = None]
    /\ UNCHANGED <<regVars, send_failed, nframes, chSend, sendVars, bc, ncalls, jobVars>>

\* an endpoint that passes the client id of its peer: connect(websocket, user_id)
ConnectStart(c, user_id) ==
    /\ chPc[c] = "new"
    /\ \A d \in Channels : d < c => chPc[d] # "new"
    /\ chPc' = [chPc EXCEPT ![c] = "accept"]
    /\ chUser' = [chUser EXCEPT ![c] = user_id]
    /\ UNCHANGED <<regVars, send_failed, nframes, chSend, sendVars, bc, ncalls, jobVars>>

\* the accept completed: connect() registers the channel, the endpoint enters
\* its receive loop
AcceptOk(c) ==
    /\ chPc[c] = "accept"
    /\ SetRegistry(connect(Registry, c, chUser[c]))
    /\ registered' = registered \cup {c}
    /\ chPc' = [chPc EXCEPT ![c] = "recv"]
    /\ bc' = NoteMutation(TRUE)
    /\ UNCHANGED <<send_failed, nframes, chUser, chSend, sendVars, ncalls, jobVars>>

\* an accept whose failure leaves the channel registered
AcceptFailRegistered(c) ==
    /\ chPc[c] = "accept"
    /\ SetRegistry(connect(Registry, c, chUser[c]))
    /\ chPc' = [chPc EXCEPT ![c] = "refused"]
    /\ UNCHANGED <<registered, send_failed, nframes, chUser, chSend, sendVars, bc, ncalls,
                   jobVars>>

\* the accept raised: the exception leaves connect() before the append, and
\* leaves the endpoint
AcceptFail(c) ==
    /\ chPc[c] = "accept"
    /\ chPc' = [chPc EXCEPT ![c] = "refused"]
    /\ UNCHANGED <<regVars, send_failed, nframes, chUser, chSend, sendVars, bc, ncalls,
                   jobVars>>

\* receive_text returned the frame data: send_personal_message serializes the
\* pong and awaits send_text
ReceiveText(c, data) ==
    /\ chPc[c] = "recv"
    /\ nframes < MaxFrames
    /\ nframes' = nframes + 1
    /\ LET r == send_personal_message_enter(Registry, pong_message(data), c)
       IN  /\ SetRegistry(r.reg)
           /\ registered' = IF r.pending THEN registered ELSE registered \ {c}
           /\ chSend' = [chSend EXCEPT ![c] = r.message_str]
           /\ chPc' = [chPc EXCEPT ![c] = IF r.pending THEN "pong" ELSE "recv"]
           /\ bc' = NoteMutation(r.reg # Registry)
    /\ UNCHANGED <<send_failed, chUser, sendVars, ncalls, jobVars>>

\* a receive loop that registers its channel again after a pong that went out
PongOkRegisters(c) ==
    /\ chPc[c] = "pong"
    /\ send_failed' = [send_failed EXCEPT ![c] = FALSE]
    /\ chSend' = [chSend EXCEPT ![c] = NoText]
    /\ chPc' = [chPc EXCEPT ![c] = "recv"]
    /\ SetRegistry(IF c \in Range(active_connections) THEN Registry
                   ELSE connect(Registry, c, chUser[c]))
    /\ registered' = registered \cup {c}
    /\ bc' = NoteMutation(c \notin Range(active_connections))
    /\ UNCHANGED <<nframes, chUser, sendVars, ncalls, jobVars>>

\* the pong send completed; the loop awaits the next frame
PongOk(c) ==
    /\ chPc[c] = "pong"
    /\ send_failed' = [send_failed EXCEPT ![c] = FALSE]
    /\ chSend' = [chSend EXCEPT ![c] = NoText]
    /\ chPc' = [chPc EXCEPT ![c] = "recv"]
    /\ UNCHANGED <<regVars, nframes, chUser, sendVars, bc, ncalls, jobVars>>

\* the pong send raised: send_personal_message disconnects the channel and
\* returns; the receive loop goes on
PongFail(c) ==
    /\ chPc[c] = "pong"
    /\ send_failed' = [send_failed EXCEPT ![c] = TRUE]
    /\ chSend' = [chSend EXCEPT ![c] = NoText]
    /\ SetRegistry(disconnect(Registry, c))
    /\ registered' = registered \ {c}
    /\ bc' = NoteMutation(c \in Range(active_connections))
    /\ chPc' = [chPc EXCEPT ![c] = "recv"]
    /\ UNCHANGED <<nframes, chUser, sendVars, ncalls, jobVars>>

\* receive_text raised WebSocketDisconnect: the handler disconnects
PeerClose(c) ==
    /\ chPc[c] = "recv"
    /\ SetRegistry(disconnect(Registry, c))
    /\ registered' = registered \ {c}
    /\ bc' = NoteMutation(c \in Range(active_connections))
    /\ chPc' = [chPc EXCEPT ![c] = "ended"]
    /\ UNCHANGED <<send_failed, nframes, chUser, chSend, sendVars, ncalls, jobVars>>

\* receive_text raised another exception: nothing catches it, the endpoint ends
ReceiveError(c) ==
    /\ chPc[c] = "recv"
    /\ chPc' = [chPc EXCEPT ![c] = "ended"]
    /\ UNCHANGED <<regVars, send_failed, nframes, chUser, chSend, sendVars, bc, ncalls,
                   jobVars>>

\* a direct call send_to_user(user_id, message)
SendToCall(user_id, message) ==
    /\ st.pc # "sending"
    /\ nsends < MaxSends
    /\ nsends' = nsends + 1
    /\ LET r == send_to_user_enter(Registry, user_id, message)
       IN  /\ st' = r.frame
           /\ SetRegistry(r.reg)
           /\ registered' = IF r.frame.pc = "done" /\ r.frame.result = "True"
                            THEN registered \ {r.frame.connection}
                            ELSE registered
           /\ bc' = NoteMutation(r.reg # Registry)
    /\ UNCHANGED <<chVars, ncalls, jobVars>>

\* the send_text of the pending send_to_user call completes or raises
SendToDone(ok) ==
    /\ st.pc = "sending"
    /\ LET r == send_to_user_done(st, Registry, ok)
       IN  /\ st' = r.frame
           /\ SetRegistry(r.reg)
           /\ bc' = NoteMutation(r.reg # Registry)
    /\ registered' = IF ok THEN registered ELSE registered \ {st.connection}
    /\ send_failed' = [send_failed EXCEPT ![st.connection] = ~ok]
    /\ UNCHANGED <<chPc, nframes, chUser, chSend, nsends, ncalls, jobVars>>

\* a direct call broadcast(message)
BroadcastCall(message) ==
    /\ bc[0].pc # "sending"
    /\ ncalls < MaxCalls
    /\ ncalls' = ncalls + 1
    /\ bc' = [bc EXCEPT ![0] = broadcast_enter(message)]
    /\ UNCHANGED <<regVars, chVars, sendVars, jobVars>>

\* the pending send_text of the pass of caller k completes or raises; a job
\* instance whose broadcast call ends goes on after the call
BroadcastSend(k, ok) ==
    /\ bc[k].pc = "sending"
    /\ LET r == broadcast_step(bc[k], Registry, ok)
           changed == r.reg # Registry
       IN  /\ SetRegistry(r.reg)
           /\ bc' = [j \in DOMAIN bc |->
                       IF j = k THEN r.frame
                       ELSE IF bc[j].pc = "sending" /\ changed
                            THEN [bc[j] EXCEPT !.mutated = TRUE]
                            ELSE bc[j]]
           /\ run' = [i \in Instances |->
                       IF i = k /\ r.frame.pc = "done"
                       THEN IF r.frame.result = "raised" THEN run_error(run[i])
                            ELSE run_after_publish(run[i])
                       ELSE run[i]]
           /\ registered' = IF r.frame.pc = "done" /\ r.frame.result = "returned"
                            THEN registered \ Range(r.frame.disconnected_connections)
                            ELSE registered
    /\ send_failed' = [send_failed EXCEPT ![bc[k].connection] = ~ok]
    /\ UNCHANGED <<chPc, nframes, chUser, chSend, sendVars, ncalls, store, nticks, bearer_token, responses>>

\* the interval trigger fires and the executor has a free instance: a run of
\* crawl_and_update starts
Tick(i) ==
    /\ nticks < MaxTicks
    /\ can_submit(Running)
    /\ i \notin Running
    /\ \A j \in Instances : j < i => j \in Running
    /\ nticks' = nticks + 1
    /\ run' = [run EXCEPT ![i] =
                 crawl_start([IdleRun EXCEPT !.tick = nticks + 1,
                                             !.prior_error = (run[i].outcome = "error")])]
    /\ bc' = [bc EXCEPT ![i] = IdleFrame]
    /\ UNCHANGED <<regVars, chVars, sendVars, ncalls, store, bearer_token, responses>>

\* the interval trigger fires while the job has max_instances running
\* instances: the executor refuses the submission and the firing is skipped
TickSkipped ==
    /\ nticks < MaxTicks
    /\ ~can_submit(Running)
    /\ nticks' = nticks + 1
    /\ UNCHANGED <<regVars, chVars, sendVars, bc, ncalls, run, store, bearer_token, responses>>

\* a crawl that processes the tweets of a keyword as soon as they arrive
SearchOkExtracts(i, response) ==
    /\ run[i].pc = "fetching"
    /\ run[i].keyword <= MaxKeywords
    /\ run' = [run EXCEPT ![i].tweets = run[i].tweets \o response,
                          ![i].reports = process_tweets(run[i].tweets \o response),
                          ![i].keyword = run[i].keyword + 1]
    /\ UNCHANGED <<regVars, chVars, sendVars, bc, ncalls, store, nticks, bearer_token, responses>>

\* _crawl_with_api: search_recent_tweets returned for the current keyword, the
\* tweets are appended and the loop sleeps
SearchOk(i, response) ==
    /\ run[i].pc = "fetching"
    /\ run[i].keyword <= MaxKeywords
    /\ run' = [run EXCEPT ![i].tweets = run[i].tweets \o response,
                          ![i].keyword = run[i].keyword + 1]
    /\ UNCHANGED <<regVars, chVars, sendVars, bc, ncalls, store, nticks, bearer_token, responses>>

\* _crawl_with_api: the search of the current keyword raised; the inner
\* handler logs it and continues with the next keyword
SearchFail(i) ==
    /\ run[i].pc = "fetching"
    /\ run[i].keyword <= MaxKeywords
    /\ run' = [run EXCEPT ![i] = search_failed(run[i])]
    /\ UNCHANGED <<regVars, chVars, sendVars, bc, ncalls, store, nticks, bearer_token, responses>>

\* the keyword loop is over: the tweets are processed and the run goes to its
\* first update_one, or ends on an empty batch
FetchDone(i) ==
    /\ run[i].pc = "fetching"
    /\ run[i].keyword > MaxKeywords
    /\ run' = [run EXCEPT ![i] = crawl_finish(run[i])]
    /\ UNCHANGED <<regVars, chVars, sendVars, bc, ncalls, store, nticks, bearer_token, responses>>

\* a handler that tells the clients about the failed run
UpsertFailNotifies(i) ==
    /\ run[i].pc = "persisting"
    /\ run' = [run EXCEPT ![i] =
                 upsert_failed([run[i] EXCEPT !.upserts = Append(run[i].upserts, FALSE)])]
    /\ bc' = [bc EXCEPT ![i] = broadcast_enter([type |-> "error", data |-> <<>>])]
    /\ UNCHANGED <<regVars, chVars, sendVars, ncalls, store, nticks, bearer_token, responses>>

\* the pending update_one raised
UpsertFail(i) ==
    /\ run[i].pc = "persisting"
    /\ run' = [run EXCEPT ![i] =
                 upsert_failed([run[i] EXCEPT !.upserts = Append(run[i].upserts, FALSE)])]
    /\ UNCHANGED <<regVars, chVars, sendVars, bc, ncalls, store, nticks, bearer_token, responses>>

\* the pending update_one completed: the report is stored under its tweet_id;
\* after the last one the run builds the message and calls broadcast, which
\* runs to its first await, its return or its exception
UpsertOk(i) ==
    /\ run[i].pc = "persisting"
    /\ run[i].idx <= Len(run[i].reports)
    /\ LET report == run[i].reports[run[i].idx]
           r == [run[i] EXCEPT !.upserts = Append(run[i].upserts, TRUE)]
           f == broadcast_enter(update_message(r.reports))
           called == [r EXCEPT !.calls = r.calls + 1]
       IN  /\ store' = update_one(store, report_dict(report))
           /\ IF publish_now(r)
              THEN /\ bc' = [bc EXCEPT ![i] = f]
                   /\ run' = [run EXCEPT ![i] =
                                IF f.result = "raised" THEN run_error(called)
                                ELSE IF f.result = "returned" THEN run_after_publish(called)
                                ELSE [called EXCEPT !.pc = "publishing"]]
              ELSE /\ bc' = bc
                   /\ run' = [run EXCEPT ![i] = [r EXCEPT !.idx = r.idx + 1]]
    /\ UNCHANGED <<regVars, chVars, sendVars, ncalls, nticks, bearer_token, responses>>

ChannelNext(C) ==
    \/ \E c \in C : EndpointStart(c)
    \/ \E c \in C : AcceptOk(c)
    \/ \E c \in C : AcceptFail(c)
    \/ \E c \in C, data \in FrameTexts : ReceiveText(c, data)
    \/ \E c \in C : PongOk(c)
    \/ \E c \in C : PongFail(c)
    \/ \E c \in C : PeerClose(c)
    \/ \E c \in C : ReceiveError(c)

SendToNext ==
    \/ \E user_id \in UserIds, m \in CallMessages : SendToCall(user_id, m)
    \/ \E ok \in BOOLEAN : SendToDone(ok)

BroadcastNext ==
    \/ \E m \in CallMessages : BroadcastCall(m)
    \/ \E k \in Callers, ok \in BOOLEAN : BroadcastSend(k, ok)

\* the responses of one search: one tweet (a search that returns no tweet
\* leaves the run in the state a search that raised leaves it in)
Responses == {<<[id |-> t, text |-> x]>> : t \in TweetIds, x \in Texts}

JobNext ==
    \/ \E i \in Instances : Tick(i)
    \/ TickSkipped
    \/ \E i \in Instances, response \in Responses : SearchOk(i, response)
    \/ \E i \in Instances : SearchFail(i)
    \/ \E i \in Instances : FetchDone(i)
    \/ \E i \in Instances : UpsertFail(i)
    \/ \E i \in Instances : UpsertOk(i)

\* the registry and its clients before the first firing of the trigger
Next == ChannelNext(Channels) \/ BroadcastNext

Spec == Init /\ [][Next]_vars

\* the deployed program: the clients, the registry and the scheduled job, the
\* only caller of broadcast.  Every batch the job publishes holds datetime
\* objects, so its broadcast call ends at json.dumps or at the emptiness test
\* and no pass of the send loop is ever pending here.
NextRun == ChannelNext(RunChannels) \/ JobNext

SpecRun == InitRun /\ [][NextRun]_vars

\* the four operations of the registry: handlers that register their channel
\* with or without a client id and unregister it when the peer closes, and
\* direct callers of broadcast and send_to_user
NextUser ==
    \/ \E c \in UserChannels, user_id \in UserIds \cup {None} : ConnectStart(c, user_id)
    \/ \E c \in UserChannels : AcceptOk(c)
    \/ \E c \in UserChannels : AcceptFail(c)
    \/ \E c \in UserChannels : PeerClose(c)
    \/ BroadcastNext
    \/ SendToNext

SpecUser == Init /\ [][NextUser]_vars

\* every operation of the registry and the whole endpoint: endpoints that
\* register their channel with or without a client id and run the receive
\* loop, and direct callers of broadcast and send_to_user
NextAll ==
    \/ \E c \in PeerChannels, user_id \in UserIds \cup {None} : ConnectStart(c, user_id)
    \/ \E c \in PeerChannels : AcceptOk(c)
    \/ \E c \in PeerChannels : AcceptFail(c)
    \/ \E c \in PeerChannels, data \in FrameTexts : ReceiveText(c, data)
    \/ \E c \in PeerChannels : PongOk(c)
    \/ \E c \in PeerChannels : PongFail(c)
    \/ \E c \in PeerChannels : PeerClose(c)
    \/ \E c \in PeerChannels : ReceiveError(c)
    \/ BroadcastNext
    \/ SendToNext

SpecAll == Init /\ [][NextAll]_vars

\* get_report answers one request: find_one is its only await and the
\* handler writes nothing
GetReport(report_id, find_ok) ==
    /\ Len(responses) < MaxRequests
    /\ responses' = Append(responses,
            [report_id |-> report_id, find_ok |-> find_ok,
             status |-> get_report(store, report_id, find_ok)])
    /\ UNCHANGED <<regVars, chVars, sendVars, bc, ncalls, run, store, nticks, bearer_token>>

\* the API over a collection the job has written earlier
InitApi == InitIdle /\ store \in Collections /\ bearer_token \in BOOLEAN

NextApi == \E report_id \in ReportIds, find_ok \in BOOLEAN : GetReport(report_id, find_ok)

SpecApi == InitApi /\ [][NextApi]_vars

TypeOK ==
    /\ Range(active_connections) \subseteq Channels
    /\ nframes \in 0..MaxFrames

\* ------------------------------------------------------------------ claims
Attempted(f) == {f.log[i].ws : i \in 1..Len(f.log)}
Delivered(f) == {f.log[i].ws : i \in {j \in 1..Len(f.log) : f.log[j].ok}}
Failed(f) == {f.log[i].ws : i \in {j \in 1..Len(f.log) : ~f.log[j].ok}}
LogChannels(f) == [i \in 1..Len(f.log) |-> f.log[i].ws]
Returned(f) == f.pc = "done" /\ f.result = "returned"

\* C1: when a broadcast call has returned, every channel that was registered
\* when the call started and is still registered has had the message sent to
\* it, whatever other tasks registered or unregistered during the pass.
C1_SnapshotAllSent ==
    \A k \in DOMAIN bc :
        Returned(bc[k]) =>
            \A c \in Range(bc[k].start) \cap Range(active_connections) :
                c \in Attempted(bc[k])

\* C2 as stated: the active set never contains a channel whose latest send
\* attempt failed, also at the suspension points inside a broadcast pass.
C2_PrunedAtFailure ==
    \A c \in Range(active_connections) : ~send_failed[c]

\* C2 amended: a channel of the active set whose latest send attempt failed is
\* one that failed in a broadcast pass still in progress, recorded in that
\* pass's disconnected_connections for removal when the pass completes.
C2_PrunedAtFailureOrPassEnd ==
    \A c \in Range(active_connections) :
        send_failed[c] =>
            \E k \in DOMAIN bc :
                /\ bc[k].pc = "sending"
                /\ c \in Range(bc[k].disconnected_connections)

\* a completed pass has pruned a channel whose send failed while another
\* channel lost its registration at the failure of its pong send
C2_Witness ==
    \E c, d \in Channels :
        /\ c # d
        /\ Returned(bc[0]) /\ c \in Failed(bc[0])
        /\ send_failed[c] /\ c \notin Range(active_connections)
        /\ send_failed[d] /\ d \notin Attempted(bc[0])
        /\ d \notin Range(active_connections)

\* C3: a broadcast pass that completes with no other task mutating the
\* registry attempts each channel of the starting registry once, in order,
\* and leaves exactly the starting registry minus the channels whose send
\* failed, so that count() is the number of successful sends.
C3_Post(f) ==
    /\ LogChannels(f) = f.start
    /\ active_connections = SelectSeq(f.start, LAMBDA c : c \notin Failed(f))
    /\ Range(active_connections) = Delivered(f)
    /\ Failed(f) \cap Range(active_connections) = {}
    /\ get_connection_count = Cardinality(Delivered(f))
    /\ InfoKeys(connection_info) = Delivered(f)

C3_BroadcastRemovesExactlyFailed ==
    [][\A k \in DOMAIN bc :
          (bc[k].pc = "sending" /\ Returned(bc[k])' /\ ~bc[k].mutated)
              => C3_Post(bc[k])']_vars

\* channels A, B, C with B failing: A and C received, count() = 2, B absent
C3_Witness ==
    /\ Returned(bc[0]) /\ ~bc[0].mutated
    /\ bc[0].start = <<1, 2, 3>>
    /\ Failed(bc[0]) = {2}
    /\ active_connections = <<1, 3>>
    /\ get_connection_count = 2

\* C4: when a send of a pass raises, the pass goes on exactly as after a
\* successful send, to the next channel of the list or to the normal return;
\* the call never ends with an exception once a send has been attempted.
C4_FailureIsolated ==
    [][\A k \in DOMAIN bc :
          (/\ bc[k].pc = "sending"
           /\ Len(bc[k].log') = Len(bc[k].log) + 1
           /\ ~bc[k].log'[Len(bc[k].log')].ok)
          => IF bc[k].it < Len(active_connections)
             THEN /\ bc[k].pc' = "sending"
                  /\ bc[k].connection' = active_connections[bc[k].it + 1]
             ELSE Returned(bc[k])']_vars

\* a pass returned normally after a failed send followed by a later attempt
C4_Witness ==
    /\ Returned(bc[0])
    /\ \E i, j \in 1..Len(bc[0].log) : i < j /\ ~bc[0].log[i].ok

\* ------------------------------------------------------ claims on the job
Ended(r) == r.pc = "idle" /\ r.outcome # None
GoodTweets(tweets) == SelectSeq(tweets, LAMBDA t : t.text # BadText)
AllUpserted(r) ==
    /\ Len(r.upserts) = Len(r.reports)
    /\ \A j \in 1..Len(r.upserts) : r.upserts[j]

\* the content of the latest of the first n reports that has tweet id t
LatestContent(reports, n, t) ==
    LET js == {j \in 1..n : reports[j].tweet_id = t}
    IN  reports[CHOOSE j \in js : \A m \in js : m <= j].content

C6_BatchSerializedAndDelivered ==
    \A i \in Instances :
        (run[i].calls >= 1 /\ bc[i].pc = "done" /\ bc[i].start # <<>>) =>
            /\ bc[i].result = "returned"
            /\ bc[i].message_str.error = None
            /\ \A j \in 1..Len(bc[i].message_str.text.data) :
                   bc[i].message_str.text.data[j].created_at # Datetime
            /\ Range(bc[i].start) \subseteq Attempted(bc[i])

\* C7: a run calls the broadcaster at most once; it has called it exactly once,
\* with one lovebug_update message holding the whole batch, as soon as every
\* report of a non-empty batch is upserted, and never when the batch is empty.
C7_BroadcastOncePerRun ==
    \A i \in Instances :
        /\ run[i].calls <= 1
        /\ run[i].reports = <<>> => run[i].calls = 0
        /\ run[i].calls = 1 => AllUpserted(run[i])
        /\ (run[i].reports # <<>> /\ AllUpserted(run[i])) =>
               /\ run[i].calls = 1
               /\ bc[i].message.type = "lovebug_update"
               /\ Len(bc[i].message.data) = Len(run[i].reports)
               /\ \A j \in 1..Len(run[i].reports) :
                      bc[i].message.data[j].tweet_id = run[i].reports[j].tweet_id

\* a run published a batch of three with a single call
C7_Witness ==
    \E i \in Instances :
        /\ Ended(run[i]) /\ Len(run[i].reports) = 3
        /\ run[i].calls = 1 /\ Len(bc[i].message.data) = 3

\* C8: the batch of a run is the sequence of the fetched tweets whose
\* extraction did not raise, in fetch order; the reports upserted and the
\* data of the message handed to the broadcaster are that sequence.
C8_BatchIsExtractedItems ==
    \A i \in Instances :
        (run[i].pc \in {"persisting", "publishing"} \/ Ended(run[i])) =>
            LET good == GoodTweets(run[i].tweets)
            IN  /\ Len(run[i].reports) = Len(good)
                /\ \A j \in 1..Len(good) :
                       /\ run[i].reports[j].tweet_id = good[j].id
                       /\ run[i].reports[j].content = good[j].text
                /\ \A j \in 1..Len(run[i].upserts) :
                       run[i].upserts[j] => stored(good[j].id) # 0
                /\ run[i].calls >= 1 =>
                       /\ Len(bc[i].message.data) = Len(good)
                       /\ \A j \in 1..Len(good) :
                              /\ bc[i].message.data[j].tweet_id = good[j].id
                              /\ bc[i].message.data[j].content = good[j].text

\* item 2 of 3 failed extraction: items 1 and 3 were upserted and handed to
\* the broadcaster as a batch of size 2
C8_Witness ==
    \E i \in Instances :
        /\ Len(run[i].tweets) = 3
        /\ run[i].tweets[1].text # BadText
        /\ run[i].tweets[2].text = BadText
        /\ run[i].tweets[3].text # BadText
        /\ run[i].tweets[1].id # run[i].tweets[3].id
        /\ Len(run[i].reports) = 2
        /\ run[i].upserts = <<TRUE, TRUE>>
        /\ run[i].calls = 1 /\ Len(bc[i].message.data) = 2
        /\ Ended(run[i])

\* C9: no exception leaves crawl_and_update: a run that fails ends in its
\* handler and frees its instance, and a firing of the trigger with no run in
\* progress starts a run, whatever the outcome of the runs before it.
C9_RunFailureContained ==
    [][/\ \A i \in Instances :
              /\ ~run[i].escaped'
              /\ run[i].outcome' = "error" => run[i].pc' = "idle"
       /\ (nticks' = nticks + 1 /\ Running = {}) =>
              \E i \in Instances : run[i].tick' = nticks']_vars

\* a run started by the second firing after the first run ended in an error
C9_Witness ==
    \E i \in Instances :
        /\ run[i].prior_error
        /\ run[i].tick = 2
        /\ run[i].pc # "idle"

\* C10: at most one run of the job is in progress; a firing of the trigger
\* during a run starts no run and changes nothing of the run in progress.
C10_NoOverlappingRuns ==
    [][/\ Cardinality(Running') <= 1
       /\ (nticks' = nticks + 1 /\ Running # {}) =>
              /\ run' = run
              /\ store' = store
              /\ bc' = bc]_vars

\* the trigger fired while the run started by the firing before it is still
\* in progress
C10_Witness ==
    \E i \in Instances :
        /\ run[i].pc = "persisting"
        /\ run[i].tick = 1
        /\ nticks = 2

\* ------------------------------------------------------------- store claims
\* the pending update_one of instance i completes in this step
UpsertedNow(i) ==
    /\ Len(run[i].upserts') = Len(run[i].upserts) + 1
    /\ run[i].upserts'[Len(run[i].upserts')]

\* C11: the store changes only when an upsert of the pipeline completes; it
\* then holds exactly one document for the report's tweet_id, with the content
\* of that report, the documents of the other tweet_ids are as before, and the
\* same upsert once more would leave the store as it is; no tweet_id ever has
\* two documents.
C11_UpsertKeyedLastWriteWins ==
    [][/\ store' # store => \E i \in Instances : UpsertedNow(i)
       /\ \A t \in 1..(MaxTweetId + 1) : Cardinality(matching(store', t)) <= 1
       /\ \A i \in Instances :
              UpsertedNow(i) =>
                  LET report == run[i].reports[run[i].idx]
                  IN  /\ Cardinality(matching(store', report.tweet_id)) = 1
                      /\ content_of(store', report.tweet_id) = report.content
                      /\ \A t \in 1..(MaxTweetId + 1) :
                             t # report.tweet_id =>
                                 Cardinality(matching(store', t))
                                     = Cardinality(matching(store, t))
                                 /\ content_of(store', t) = content_of(store, t)
                      /\ update_one(store', report_dict(report)) = store'
                      /\ report_dict(report) \in Range(store) => store' = store]_vars

\* one batch held two reports of the same tweet_id with different contents:
\* both upserts completed and the store holds one document, the later content
C11_Witness ==
    \E i \in Instances :
        /\ Len(run[i].reports) >= 2
        /\ run[i].reports[1].tweet_id = run[i].reports[2].tweet_id
        /\ run[i].reports[1].content # run[i].reports[2].content
        /\ Len(run[i].upserts) >= 2 /\ run[i].upserts[1] /\ run[i].upserts[2]
        /\ Len(store) = 1
        /\ stored(run[i].reports[2].tweet_id) = run[i].reports[2].content

\* ---------------------------------------------------------- registry claims
\* C12: in every state count() is the number of channels that were registered
\* and have been neither unregistered nor pruned since, and these are the
\* channels of the active list.
C12_CountIsRegistered ==
    /\ get_connection_count = Cardinality(registered)
    /\ Range(active_connections) = registered

\* two channels were registered, a broadcast pass pruned one of them and a
\* send_to_user call reached the other: count() is one
C12_Witness ==
    /\ Returned(bc[0]) /\ Cardinality(Failed(bc[0])) = 1
    /\ st.pc = "done" /\ st.result = "True" /\ Len(st.log) = 1 /\ st.log[1].ok
    /\ st.connection \notin Failed(bc[0])
    /\ get_connection_count = 1

\* C14: a channel whose handshake failed, or has not completed, is in neither
\* the active list nor the metadata map, and a failed handshake is final: the
\* exception has left connect and the endpoint, which never registers the
\* channel later.
C14_RegisteredOnlyAfterHandshake ==
    [][\A c \in Channels :
          /\ chPc[c]' \in {"new", "accept", "refused"} =>
                 /\ c \notin Range(active_connections')
                 /\ c \notin InfoKeys(connection_info')
          /\ chPc[c] = "refused" => chPc[c]' = "refused"
          /\ chPc[c]' = "refused" => chPc[c] \in {"accept", "refused"}]_vars

\* the handshake of one channel failed while another channel is registered
C14_Witness ==
    \E c, d \in Channels :
        /\ chPc[c] = "refused"
        /\ c \notin Range(active_connections) /\ c \notin InfoKeys(connection_info)
        /\ chPc[d] = "recv" /\ d \in Range(active_connections)

\* --------------------------------------------------------- send_to_user claims
\* a send_to_user call ends in this step
SendToEnds == st' # st /\ st.pc' = "done"

\* the channels registered under a client id, in the order of registration
RegisteredUnder(info, user_id) ==
    LET under == SelectSeq(info, LAMBDA e : e.user_id = user_id)
    IN  [j \in 1..Len(under) |-> under[j].ws]

\* C15: a send_to_user call made while no channel is registered under the
\* client id returns False in the same step, with no send attempted on any
\* channel and the registry as before; it returns False in no other case.
C15_SendToUnknownClient ==
    [][/\ (nsends' = nsends + 1
              /\ RegisteredUnder(connection_info, st.user_id') = <<>>) =>
              /\ st.pc' = "done" /\ st.result' = "False"
              /\ st.log' = <<>>
              /\ send_failed' = send_failed /\ chSend' = chSend
              /\ active_connections' = active_connections
              /\ connection_info' = connection_info
       /\ (SendToEnds /\ st.result' = "False") =>
              RegisteredUnder(st.start', st.user_id') = <<>>]_vars

\* send_to_user returned False while channels without a client id are
\* registered
C15_Witness ==
    /\ st.pc = "done" /\ st.result = "False"
    /\ st.start # <<>> /\ st.start = connection_info
    /\ st.log = <<>>

\* C16: a send_to_user call made while a channel is registered under the
\* client id attempts exactly one send, on the first channel registered under
\* the id, and returns True; when that send fails the registry loses that
\* channel and no other, and it is unchanged when the send succeeds.
C16_SendToFirstChannel ==
    [][(SendToEnds /\ RegisteredUnder(st.start', st.user_id') # <<>>) =>
           LET first == Head(RegisteredUnder(st.start', st.user_id'))
           IN  /\ st.result' = "True"
               /\ Len(st.log') = 1
               /\ st.log'[1].ws = first
               /\ IF st.log'[1].ok
                  THEN /\ active_connections' = active_connections
                       /\ connection_info' = connection_info
                  ELSE /\ active_connections' = ListRemove(active_connections, first)
                       /\ connection_info' = DictPop(connection_info, first)]_vars

\* the metadata entry of a channel (None: no entry)
InfoOf(info, ws) ==
    IF ws \in InfoKeys(info)
    THEN info[CHOOSE j \in 1..Len(info) : info[j].ws = ws].user_id
    ELSE "absent"

\* disconnect of a channel that is not in the active list
C13_AbsentCase(c) ==
    c \notin Range(active_connections) =>
        /\ ~disconnect_raises(Registry, c)
        /\ disconnect(Registry, c) = Registry

\* disconnect twice is disconnect once, and the other channels keep their
\* place in the list and their metadata
C13_TwiceIsOnce(c) ==
    LET once == disconnect(Registry, c)
    IN  /\ ~disconnect_raises(Registry, c) /\ ~disconnect_raises(once, c)
        /\ disconnect(once, c) = once
        /\ once.active = SelectSeq(active_connections, LAMBDA d : d # c)
        /\ \A d \in Channels \ {c} : InfoOf(once.info, d) = InfoOf(connection_info, d)

\* C13: in every reachable registry, disconnect of a channel that is not in
\* the active list raises nothing and returns the registry as it is, and a
\* second disconnect of a channel returns what the first returned, the
\* entries of the other channels untouched; a failed send_to_user send on a
\* channel already unregistered leaves the registry unchanged.
C13_UnregisterIdempotent ==
    /\ [](\A c \in Channels : C13_AbsentCase(c) /\ C13_TwiceIsOnce(c))
    /\ [][(st.pc = "sending" /\ st.pc' = "done"
              /\ ~st.log'[1].ok
              /\ st.connection \notin Range(active_connections)) =>
              /\ active_connections' = active_connections
              /\ connection_info' = connection_info]_vars

\* disconnect was called twice for one channel, by the handler of a failed
\* send_to_user send and by the pruning loop of a broadcast pass, while
\* another channel stayed registered
C13_Witness ==
    \E c, d \in Channels :
        /\ c # d
        /\ st.pc = "done" /\ Len(st.log) = 1
        /\ st.log[1].ws = c /\ ~st.log[1].ok
        /\ Returned(bc[0]) /\ c \in Failed(bc[0])
        /\ c \notin Range(active_connections)
        /\ d \in Range(active_connections) /\ d \in InfoKeys(connection_info)

\* ------------------------------------------------------------ endpoint claims
\* C17: no channel is in the registry after its receive loop has ended.
C17_EndedChannelUnregistered ==
    \A c \in Channels :
        chPc[c] = "ended" =>
            /\ c \notin Range(active_connections)
            /\ c \notin InfoKeys(connection_info)

\* C18: a frame is read only by an endpoint that has no pong pending; reading
\* it leaves one pong pending, on the channel of the frame and on no other,
\* with the same text whatever the frame carried; the endpoint does nothing
\* else until the send of that pong has completed or failed, and it then
\* awaits the next frame.
C18_OnePongPerFrame ==
    [][/\ nframes' # nframes =>
              /\ nframes' = nframes + 1
              /\ Cardinality({c \in Channels : chPc[c] = "recv" /\ chPc[c]' = "pong"}) = 1
       /\ \A c \in Channels :
              /\ (chPc[c] # "pong" /\ chPc[c]' = "pong") =>
                     /\ chPc[c] = "recv" /\ nframes' = nframes + 1
                     /\ chSend[c]' = [error |-> None,
                                      text |-> [type |-> "pong", message |-> "alive"]]
                     /\ \A d \in Channels \ {c} :
                            chPc[d]' = chPc[d] /\ chSend[d]' = chSend[d]
              /\ (chPc[c] = "pong" /\ chPc[c]' # "pong") =>
                     /\ chPc[c]' = "recv" /\ nframes' = nframes
                     /\ chSend[c]' = NoText
              /\ chPc[c]' # "pong" => chSend[c]' = NoText]_vars

\* the pong of one channel is pending while another registered channel awaits
\* its next frame
C18_Witness ==
    \E c, d \in Channels :
        /\ chPc[c] = "pong" /\ chSend[c].text.type = "pong" /\ nframes = 1
        /\ chPc[d] = "recv" /\ d \in Range(active_connections)
        /\ chSend[d] = NoText

\* C19: every message whose send is pending on a channel, a pong or an update
\* of a broadcast pass, has exactly the fields "type" and "data".
C19_EnvelopeTypeData ==
    /\ \A c \in Channels :
           chPc[c] = "pong" => DOMAIN chSend[c].text = {"type", "data"}
    /\ \A k \in DOMAIN bc :
           bc[k].pc = "sending" => DOMAIN bc[k].message_str.text = {"type", "data"}

\* C20: a broadcast call made while the active list is empty returns in the
\* same step: nothing is serialized, so that also a message json.dumps would
\* reject returns normally, no send is attempted and the registry stays empty.
C20_BroadcastOnEmptyRegistry ==
    [][(ncalls' = ncalls + 1 /\ active_connections = <<>>) =>
           /\ bc[0].pc' = "done" /\ bc[0].result' = "returned"
           /\ bc[0].message_str' = NoText
           /\ bc[0].log' = <<>>
           /\ send_failed' = send_failed
           /\ active_connections' = <<>> /\ connection_info' = <<>>]_vars

\* broadcast of a message that cannot be serialized returned normally: the
\* registry was empty, after a channel had been registered and unregistered
C20_Witness ==
    /\ Returned(bc[0]) /\ bc[0].message = DictUpdate
    /\ bc[0].start = <<>> /\ bc[0].log = <<>>
    /\ active_connections = <<>>
    /\ \E c \in Channels : chPc[c] = "ended"

\* ------------------------------------------------------------ pipeline claims
\* the reports of the tweets whose extraction does not raise, in fetch order
ReportsOf(tweets) ==
    LET good == GoodTweets(tweets)
    IN  [j \in 1..Len(good) |->
            [tweet_id |-> good[j].id, content |-> good[j].text, created_at |-> Datetime]]

\* C21: in a run that uses the API, the search of a keyword, whether it
\* returns or raises, is followed by the search of the next keyword with the
\* tweets fetched so far kept; the run leaves the fetch only after the last
\* keyword, and its batch is then the reports of all the tweets that were
\* fetched; when no upsert of that batch fails, every report of it is stored
\* and the batch is handed to the broadcaster.
C21_FetchFailureSkipsKeyword ==
    /\ [][\A i \in Instances :
             /\ (run[i].pc = "fetching" /\ run[i].keyword <= MaxKeywords
                     /\ run[i]' # run[i]) =>
                    /\ run[i].pc' = "fetching"
                    /\ run[i].keyword' = run[i].keyword + 1
                    /\ \/ run[i].tweets' = run[i].tweets
                       \/ \E response \in Responses :
                              run[i].tweets' = run[i].tweets \o response
             /\ (run[i].pc = "fetching" /\ run[i].pc' # "fetching") =>
                    /\ run[i].keyword = MaxKeywords + 1
                    /\ run[i].tweets' = run[i].tweets
                    /\ run[i].reports' = ReportsOf(run[i].tweets)
                    /\ run[i].reports' # <<>> => run[i].pc' = "persisting"]_vars
    /\ [](\A i \in Instances :
             (Ended(run[i]) /\ run[i].reports # <<>> /\ AllUpserted(run[i])) =>
                 /\ run[i].reports = ReportsOf(run[i].tweets)
                 /\ \A j \in 1..Len(run[i].reports) :
                        stored(run[i].reports[j].tweet_id) # 0
                 /\ run[i].calls = 1
                 /\ bc[i].message = update_message(run[i].reports))

\* a run searched every keyword and fetched fewer tweets than keywords, each
\* successful search returning one tweet: a search raised, and the tweets of
\* the other keywords were upserted and handed to the broadcaster
C21_Witness ==
    \E i \in Instances :
        /\ run[i].keyword = MaxKeywords + 1
        /\ Len(run[i].tweets) = MaxKeywords - 1
        /\ Len(run[i].reports) = MaxKeywords - 1
        /\ Ended(run[i]) /\ AllUpserted(run[i])
        /\ run[i].calls = 1
        /\ Len(bc[i].message.data) = MaxKeywords - 1

\* C22: the only sends ever pending on a channel are a pong of its endpoint
\* or a lovebug_update of a broadcast pass; a run that ended in its error
\* handler or on an empty batch has attempted no send, and no step of a run
\* changes the registry or the text pending on a channel.
C22_FailedRunIsSilent ==
    /\ [](/\ \A c \in Channels :
                chPc[c] = "pong" => chSend[c].text.type = "pong"
          /\ \A k \in Callers :
                bc[k].pc = "sending" => bc[k].message_str.text.type = "lovebug_update"
          /\ \A i \in Instances :
                (Ended(run[i]) /\ run[i].outcome \in {"error", "empty"}) =>
                    /\ bc[i].pc # "sending"
                    /\ bc[i].log = <<>>)
    /\ [][run' # run =>
              /\ active_connections' = active_connections
              /\ connection_info' = connection_info
              /\ send_failed' = send_failed
              /\ chSend' = chSend]_vars

\* a run failed in the broadcaster while a channel was registered: no send was
\* attempted
C22_Witness ==
    \E i \in Instances, c \in Channels :
        /\ Ended(run[i]) /\ run[i].outcome = "error"
        /\ run[i].calls = 1 /\ bc[i].result = "raised"
        /\ c \in Range(bc[i].start) /\ c \in Range(active_connections)
        /\ bc[i].log = <<>>

\* the phase changes of a run: fetching, then persisting (the extraction is
\* the step between them), then publishing, then idle; a run may end early
PhaseSteps ==
    {<<"idle", "idle">>, <<"idle", "fetching">>, <<"idle", "persisting">>,
     <<"fetching", "fetching">>, <<"fetching", "persisting">>, <<"fetching", "idle">>,
     <<"persisting", "persisting">>, <<"persisting", "publishing">>,
     <<"persisting", "idle">>,
     <<"publishing", "publishing">>, <<"publishing", "idle">>}

\* C23: a run changes phase only forwards, from fetching to persisting to
\* publishing to idle; while it fetches nothing is extracted, upserted or
\* published; the batch is complete before the first upsert and does not
\* change afterwards; the reports are upserted one at a time; and the
\* broadcaster has been called only when the upsert of every report of the
\* batch has been attempted.
C23_PhasesInOrder ==
    [][\A i \in Instances :
          /\ <<run[i].pc, run[i].pc'>> \in PhaseSteps
          /\ run[i].pc' = "fetching" =>
                 /\ run[i].reports' = <<>>
                 /\ run[i].upserts' = <<>>
                 /\ run[i].calls' = 0
          /\ run[i].pc \in {"persisting", "publishing"} =>
                 /\ run[i].tweets' = run[i].tweets
                 /\ run[i].reports' = run[i].reports
                 /\ Len(run[i].upserts') \in {Len(run[i].upserts), Len(run[i].upserts) + 1}
          /\ Len(run[i].upserts') <= Len(run[i].reports')
          /\ run[i].upserts' # <<>> => run[i].reports' = ReportsOf(run[i].tweets')
          /\ run[i].calls' >= 1 => Len(run[i].upserts') = Len(run[i].reports')]_vars

\* a run searched every keyword, upserted its batch of three, called the
\* broadcaster and is idle again
C23_Witness ==
    \E i \in Instances :
        /\ bearer_token
        /\ run[i].keyword = MaxKeywords + 1
        /\ Len(run[i].reports) = 3 /\ Len(run[i].upserts) = 3
        /\ run[i].calls = 1
        /\ run[i].pc = "idle" /\ run[i].outcome = "published"

\* ------------------------------------------------------------ registry shape
\* C24: in every state, each one a suspension point of the tasks, the keys
\* of the metadata map are the channels of the active list and neither holds
\* a channel twice; a step changes the list exactly when it changes the map.
C24_ListAndMetadataTogether ==
    /\ [](/\ InfoKeys(connection_info) = Range(active_connections)
          /\ Len(active_connections) = Cardinality(Range(active_connections))
          /\ Len(connection_info) = Cardinality(InfoKeys(connection_info)))
    /\ [][(active_connections' # active_connections)
              <=> (connection_info' # connection_info)]_vars

\* a registered channel on which the pong of its endpoint and the send of a
\* send_to_user call are both pending
C24_Witness ==
    \E c \in Channels :
        /\ chPc[c] = "pong"
        /\ st.pc = "sending" /\ st.connection = c
        /\ active_connections = <<c>>
        /\ InfoKeys(connection_info) = {c}

\* C25: a channel enters the active list and the metadata map only in the
\* step that completes its handshake, and a channel goes through its
\* handshake once; so a channel that has left the registry, by a failed pong
\* send, by the pruning of a broadcast pass or by the disconnect of its peer,
\* is never in it again, whatever its receive loop does afterwards.
C25_LifecycleOneWay ==
    [][\A c \in Channels :
          /\ (c \notin Range(active_connections) /\ c \in Range(active_connections')) =>
                 chPc[c] = "accept" /\ chPc[c]' = "recv"
          /\ (c \notin InfoKeys(connection_info) /\ c \in InfoKeys(connection_info')) =>
                 chPc[c] = "accept" /\ chPc[c]' = "recv"
          /\ chPc[c]' = "accept" => chPc[c] \in {"new", "accept"}
          /\ chPc[c]' = "new" => chPc[c] = "new"]_vars

\* the pong send of a channel failed: the channel is out of the registry and
\* its receive loop awaits the next frame
C25_Witness ==
    \E c \in Channels :
        /\ chPc[c] = "recv" /\ nframes = 1
        /\ send_failed[c] /\ bc[0].pc = "idle"
        /\ c \notin Range(active_connections)
        /\ c \notin InfoKeys(connection_info)

\* C26: a message is handed to the broadcaster only by a run all of whose
\* upserts completed, and each report it carries is a report of the batch
\* that the store then holds under its tweet_id; a run one of whose upserts
\* failed hands no message to the broadcaster and attempts no send, and the
\* reports it upserted before the failure are in the store.
C26_PublishedReportsAreStored ==
    \A i \in Instances :
        /\ bc[i].message # NoMessage => run[i].calls >= 1
        /\ run[i].calls >= 1 =>
               /\ AllUpserted(run[i])
               /\ Len(bc[i].message.data) = Len(run[i].reports)
               /\ \A j \in 1..Len(bc[i].message.data) :
                      /\ bc[i].message.data[j] = report_dict(run[i].reports[j])
                      /\ stored(bc[i].message.data[j].tweet_id)
                             = LatestContent(run[i].reports, Len(run[i].reports),
                                             bc[i].message.data[j].tweet_id)
        /\ \A j \in 1..Len(run[i].upserts) :
               ~run[i].upserts[j] =>
                   /\ run[i].calls = 0
                   /\ bc[i].message = NoMessage /\ bc[i].log = <<>>
                   /\ \A m \in 1..(j - 1) :
                          /\ run[i].upserts[m]
                          /\ stored(run[i].reports[m].tweet_id)
                                 = LatestContent(run[i].reports, j - 1,
                                                 run[i].reports[m].tweet_id)

\* while a channel is registered, the first upsert of a batch of two completed
\* and the second failed: the first report is stored and no message was
\* handed to the broadcaster
C26_Witness ==
    \E i \in Instances, c \in Channels :
        /\ c \in Range(active_connections)
        /\ Len(run[i].reports) = 2
        /\ run[i].upserts = <<TRUE, FALSE>>
        /\ Ended(run[i]) /\ run[i].calls = 0
        /\ bc[i].message = NoMessage
        /\ stored(run[i].reports[1].tweet_id) = run[i].reports[1].content
\* ------------------------------------------------------------- query claims
\* the documents of the collection a well-formed report_id matches
MatchedBy(report_id) == {j \in 1..Len(store) : j = report_id}

\* C27 as stated: a request whose lookup succeeds and matches no stored
\* report is answered with 404, and a request is answered with 500 only
\* when its lookup itself failed (the id could not be parsed or find_one
\* raised).
C27_NotFoundIs404 ==
    \A i \in 1..Len(responses) :
        LET r == responses[i]
        IN  /\ (r.find_ok /\ r.report_id \in ObjectIds /\ MatchedBy(r.report_id) = {})
                => r.status = 404
            /\ r.status = 500 => (~r.find_ok \/ r.report_id = InvalidId)

\* a request for a well-formed id that matches no document has been answered
C27_Witness ==
    \E i \in 1..Len(responses) :
        /\ responses[i].find_ok
        /\ responses[i].report_id \in ObjectIds
        /\ MatchedBy(responses[i].report_id) = {}

\* what the code does in C27's case: every answer is 200 for a document
\* that was found and 500 otherwise, and no request is answered with 404
C27_NeverAnswers404 ==
    \A i \in 1..Len(responses) :
        LET r == responses[i]
        IN  /\ r.status \in {200, 500}
            /\ r.status = 200 <=>
                   (r.find_ok /\ r.report_id \in ObjectIds /\ MatchedBy(r.report_id) # {})

====
